---- MODULE Spec2Model ----
(***************************************************************************)
(* PB file ingestion and versioning pipeline of pabulib_front: the admin   *)
(* handlers of app/routes_admin.py (ingest, replace, delete, bulk delete,  *)
(* permanent removal of an archived file) and the batch job of             *)
(* scripts/db_refresh.py, over the pb_files table, its child tables, the   *)
(* refresh_state row and the three directories (tmp uploads, canonical     *)
(* pb_files, archive).                                                     *)
(*                                                                         *)
(* Texts are sequences of one-character strings, so that strip, lower and  *)
(* join are computed as the code computes them.  Timestamps are whole      *)
(* seconds counted by clock.                                               *)
(***************************************************************************)
EXTENDS Integers, Sequences, FiniteSets, TLC

\* ---- bounds ----
\* number of handler calls and environment steps in a run (one per second)
MaxClock == 4
\* rows the pb_files table may hold
MaxRows == 4
\* number of steps in a run of the batch job alone (SpecBatch)
MaxBatchClock == 6

\* data rows of a PROJECTS and of a VOTES section
MaxProjects == 2

MaxVoters == 2

\* comments of a META comment field and characters of one comment
MaxComments == 2

MaxCommentLen == 3

\* how far the keys built lie under and over MAXLEN
MaxSlack == 1

\* largest number in a META bound field
MaxBound == 3

\* gunicorn worker processes (workers = 3 in gunicorn_config.py)
MaxWorkers == 2

\* ---- program constants ----
NULL == 0
MAXLEN == 191
HashLen == 12

\* File names an admin uploads / that lie in the canonical directory, in
\* the order sorted(folder.glob("*.pb")) lists them.
NameOrder == <<"f1.pb", "f2.pb">>
Names == {NameOrder[i] : i \in DOMAIN NameOrder}

\* ---- text helpers (str.strip, str.lower, str.join) ----
LowerChar(c) == CASE c = "A" -> "a" [] c = "B" -> "b" [] c = "C" -> "c" [] OTHER -> c

lower(s) == [i \in 1..Len(s) |-> LowerChar(s[i])]

RECURSIVE lstrip(_)
lstrip(s) == IF s # <<>> /\ Head(s) = " " THEN lstrip(Tail(s)) ELSE s

RECURSIVE rstrip(_)
rstrip(s) == IF s # <<>> /\ s[Len(s)] = " " THEN rstrip(SubSeq(s, 1, Len(s) - 1)) ELSE s

strip(s) == rstrip(lstrip(s))

RECURSIVE join(_, _)
join(sep, parts) ==
    IF parts = <<>> THEN <<>>
    ELSE IF Len(parts) = 1 THEN parts[1]
    ELSE parts[1] \o <<sep>> \o join(sep, Tail(parts))

\* dict.get(key, default)
MetaGet(meta, key, default) == IF key \in DOMAIN meta THEN meta[key] ELSE default

\* ---- identity ----
compute_webpage_name(meta) ==
    LET country == strip(MetaGet(meta, "country", <<>>))
        unit == strip(MetaGet(meta, "unit", MetaGet(meta, "city", MetaGet(meta, "district", <<>>))))
        instance == strip(MetaGet(meta, "instance", MetaGet(meta, "year", <<>>)))
        subunit == strip(MetaGet(meta, "subunit", <<>>))
        webpage_parts == SelectSeq(<<country, unit, instance, subunit>>, LAMBDA p : p # <<>>)
    IN [webpage_name |-> join("_", webpage_parts), country |-> country, unit |-> unit,
        instance |-> instance, subunit |-> subunit]

\* hashlib.sha1(key).hexdigest()[:12]: twelve hex digits that depend on the key only
Sha1Hex12(key) == [i \in 1..HashLen |-> IF (Len(key) + i) % 2 = 0 THEN "e" ELSE "f"]

build_group_key_LongPrefix(country, unit, instance, subunit) ==
    LET parts == <<country, unit, instance, subunit>>
        key == join("|", [i \in 1..4 |-> lower(strip(parts[i]))])
    IN IF Len(key) <= MAXLEN THEN key
       ELSE SubSeq(key, 1, MAXLEN - HashLen) \o <<"_">> \o Sha1Hex12(key)

build_group_key(country, unit, instance, subunit) ==
    LET parts == <<country, unit, instance, subunit>>
        key == join("|", [i \in 1..4 |-> lower(strip(parts[i]))])
    IN IF Len(key) <= MAXLEN THEN key
       ELSE SubSeq(key, 1, MAXLEN - 1 - HashLen) \o <<"_">> \o Sha1Hex12(key)

\* ---- file contents ----
\* A .pb file as far as the pipeline looks at it: its META mapping, the first
\* column of its PROJECTS header, and the number of "#n:" comments and of
\* category / target tokens it yields.
Contents ==
    { [meta |-> [country |-> <<"A">>, unit |-> <<"B">>], projects_header |-> "project_id",
       comments |-> 1, categories |-> 1, targets |-> 0],
      [meta |-> [country |-> <<"A">>, instance |-> <<"B">>], projects_header |-> "project_id",
       comments |-> 0, categories |-> 0, targets |-> 0],
      [meta |-> [country |-> <<"a">>, city |-> <<"B", " ">>], projects_header |-> "project_id",
       comments |-> 0, categories |-> 0, targets |-> 1],
      [meta |-> [country |-> <<"C">>], projects_header |-> "id",
       comments |-> 0, categories |-> 0, targets |-> 0] }

\* (variant: the header check is missing)
ParseRaises_Never(content) == FALSE

\* parse_pb_lines raises ValueError when the PROJECTS header does not start
\* with project_id
ParseRaises(content) == content.projects_header # "project_id"

\* parse_pb_to_tile: the identity fields of the tile it returns
parse_pb_to_tile(content) == compute_webpage_name(content.meta)

\* ---- paths ----
TmpPath(name) == [dir |-> "tmp", sub |-> "", ts |-> 0, name |-> name]
PbPath(name) == [dir |-> "pb", sub |-> "", ts |-> 0, name |-> name]
ArchPath(sub, ts, name) == [dir |-> "arch", sub |-> sub, ts |-> ts, name |-> name]
NoPath == [dir |-> "none", sub |-> "", ts |-> 0, name |-> ""]

\* Path.unlink / shutil.move on the directory tree
Unlink(d, p) == [q \in DOMAIN d \ {p} |-> d[q]]
Move(d, src, dst) == [q \in (DOMAIN d \ {src}) \cup {dst} |-> IF q = dst THEN d[src] ELSE d[q]]

VARIABLES
    rows,       \* pb_files table (committed): sequence of rows, id = position
    children,   \* pb_comments / pb_categories / pb_targets rows (committed)
    disk,       \* files on disk: path -> [content, mtime]
    clock,      \* wall clock, whole seconds
    refresh_state, \* refresh_state row "pb"; NoRefreshState while the row does not exist
    pc,         \* position of the one running handler
    cur,        \* locals of the running handler
    last,       \* what the last finished handler was called with and returned
    TILES_CACHE \* _TILES_CACHE of each web worker process: the payload and its _db_sig attribute

vars == <<rows, children, disk, clock, refresh_state, pc, cur, last, TILES_CACHE>>

Idle == [op |-> "none"]
\* gunicorn worker processes, each with its own module globals
Workers == 1..MaxWorkers

\* _TILES_CACHE = None
NoCache == [built |-> FALSE, tiles |-> {}, db_sig |-> NULL]
NoRefreshState == [last_refresh_at |-> NULL, last_completed_at |-> NULL]

Result(op, result, name, confirm, prev, new, faults) ==
    [op |-> op, result |-> result, name |-> name, confirm |-> confirm,
     prev |-> prev, new |-> new, faults |-> faults]

Init ==
    /\ rows = <<>>
    /\ children = {}
    /\ disk = <<>>
    /\ clock = 1
    /\ refresh_state = NoRefreshState
    /\ pc = "idle"
    /\ cur = Idle
    /\ last = Result("none", "none", "", FALSE, NULL, NULL, {})
    /\ TILES_CACHE = [w \in Workers |-> NoCache]

\* A handler or environment step starts: nothing else is running, and the
\* clock moves on by a second.
Begin ==
    /\ pc = "idle"
    /\ clock <= MaxClock
    /\ clock' = clock + 1

\* A step of the batch job or of its environment starts
BeginBatch ==
    /\ pc = "idle"
    /\ clock <= MaxBatchClock
    /\ clock' = clock + 1

\* pb_service.invalidate_caches()
\* it clears the module globals of the worker that handles the request
invalidate_caches == \E w \in Workers : TILES_CACHE' = [TILES_CACHE EXCEPT ![w] = NoCache]

\* ---- queries ----
\* (variant: the webpage_name filter is missing)
CurrentByWebpage_AnyCurrent(rs, w) == {i \in DOMAIN rs : rs[i].is_current}

CurrentByWebpage(rs, w) == {i \in DOMAIN rs : rs[i].webpage_name = w /\ rs[i].is_current}
CurrentByName(rs, n) == {i \in DOMAIN rs : rs[i].file_name = n /\ rs[i].is_current}
CurrentByGroup(rs, g) == {i \in DOMAIN rs : rs[i].group_key = g /\ rs[i].is_current}

\* ids in ascending order
RECURSIVE SortedIds(_)
SortedIds(ids) ==
    IF ids = {} THEN <<>>
    ELSE LET m == CHOOSE i \in ids : \A j \in ids : i <= j
         IN <<m>> \o SortedIds(ids \ {m})

\* "if dest.exists(): dest.unlink()" followed by shutil.move(src, dest), which
\* raises when fails is set or when the unlink has just removed src itself
ArchiveMove(d, src, dest, fails) ==
    LET unlinked == IF dest \in DOMAIN d THEN Unlink(d, dest) ELSE d
        raises == fails \/ src \notin DOMAIN unlinked
    IN [disk |-> IF raises THEN unlinked ELSE Move(unlinked, src, dest), raised |-> raises]

\* ---- environment ----
\* upload_tiles: f.save(tmp_dir / fname), overwriting an earlier upload
upload_tiles(name, content) ==
    /\ Begin
    /\ disk' = [q \in DOMAIN disk \cup {TmpPath(name)} |->
                  IF q = TmpPath(name) THEN [content |-> content, mtime |-> clock] ELSE disk[q]]
    /\ last' = Result("upload", "ok", name, FALSE, NULL, NULL, {})
    /\ UNCHANGED <<rows, children, refresh_state, pc, cur, TILES_CACHE>>

\* ---- upload_tiles_ingest ----
\* (variant: the confirmation check is missing)
RequiresConfirm_Never(webpage_exists, confirm) == FALSE

\* "if webpage_exists and not confirm": answer 409 and stop
RequiresConfirm(webpage_exists, confirm) == webpage_exists /\ ~confirm

\* (variant: the previous row is not flipped)
Supersede_NoFlip(rs, prev) == rs

\* "if prev: prev.is_current = False"
Supersede(rs, prev) == IF prev = NULL THEN rs ELSE [rs EXCEPT ![prev].is_current = FALSE]

\* First part: parse at tmp, the confirmation check, and the archival
\* transaction (its own get_session block, committed on exit).
IngestArchive(name, confirm, archFail, commitFail) ==
    /\ Begin
    /\ Len(rows) < MaxRows
    /\ TmpPath(name) \in DOMAIN disk
    /\ UNCHANGED TILES_CACHE
    /\ LET content == disk[TmpPath(name)].content IN
       IF ParseRaises(content) THEN
           /\ last' = Result("ingest", "parse_error", name, confirm, NULL, NULL, {})
           /\ UNCHANGED <<rows, children, disk, refresh_state, pc, cur>>
       ELSE
           LET tile_preview == parse_pb_to_tile(content)
               webpage_val == strip(tile_preview.webpage_name)
               matches == IF webpage_val # <<>> THEN CurrentByWebpage(rows, webpage_val) ELSE {}
               webpage_exists == matches # {}
           IN
           IF RequiresConfirm(webpage_exists, confirm) THEN
               /\ last' = Result("ingest", "requires_confirm", name, confirm, NULL, NULL, {})
               /\ UNCHANGED <<rows, children, disk, refresh_state, pc, cur>>
           ELSE
               LET \* one_or_none() raises MultipleResultsFound on several rows
                   several == Cardinality(matches) > 1
                   prev_rec == IF Cardinality(matches) = 1 THEN CHOOSE i \in matches : TRUE ELSE NULL
                   archiving == prev_rec # NULL /\ rows[prev_rec].path \in DOMAIN disk
                   archived_to == ArchPath("", clock, rows[prev_rec].file_name)
                   mv == ArchiveMove(disk, rows[prev_rec].path, archived_to, archFail)
                   moved == archiving /\ ~mv.raised
                   committed == moved /\ ~commitFail
                   faults == (IF archiving /\ mv.raised THEN {"archive_move"} ELSE {})
                             \cup (IF moved /\ commitFail THEN {"archive_commit"} ELSE {})
                             \cup (IF several THEN {"multiple_rows"} ELSE {})
               IN
               /\ disk' = IF archiving THEN mv.disk ELSE disk
               /\ rows' = IF committed THEN [rows EXCEPT ![prev_rec].path = archived_to] ELSE rows
               /\ pc' = "ingest_move"
               /\ cur' = [op |-> "ingest", name |-> name, confirm |-> confirm, now |-> clock,
                          tile |-> tile_preview, rows0 |-> rows, disk0 |-> disk, faults |-> faults]
               /\ UNCHANGED <<children, refresh_state, last>>

\* Second part: shutil.move(tmp_path, target)
IngestMove(moveFail) ==
    /\ pc = "ingest_move"
    /\ UNCHANGED TILES_CACHE
    /\ LET target == PbPath(cur.name)
           unlinked == IF target \in DOMAIN disk THEN Unlink(disk, target) ELSE disk
       IN
       IF moveFail THEN
           /\ disk' = unlinked
           /\ pc' = "idle"
           /\ cur' = Idle
           /\ last' = Result("ingest", "move_error", cur.name, cur.confirm, NULL, NULL,
                             cur.faults \cup {"move"})
           /\ UNCHANGED <<rows, children, clock, refresh_state>>
       ELSE
           /\ disk' = Move(disk, TmpPath(cur.name), target)
           /\ pc' = "ingest_db"
           /\ UNCHANGED <<rows, children, clock, refresh_state, cur, last>>

\* Rows with the greatest ingested_at among ids: what order_by(desc).first() may return
LatestIngested(rs, ids) == {i \in ids : \A j \in ids : rs[j].ingested_at <= rs[i].ingested_at}

\* Third part: the insert transaction
IngestInsert(commitFail) ==
    /\ pc = "ingest_db"
    /\ LET tile == cur.tile
           target == PbPath(cur.name)
           webpage_name == tile.webpage_name
           currents == IF webpage_name # <<>> THEN CurrentByWebpage(rows, webpage_name) ELSE {}
           firsts == IF currents = {} THEN {NULL} ELSE LatestIngested(rows, currents)
       IN \E prev \in firsts :
           LET rec == [id |-> Len(rows) + 1,
                       file_name |-> cur.name,
                       path |-> target,
                       webpage_name |-> webpage_name,
                       group_key |-> build_group_key(tile.country, tile.unit, tile.instance, tile.subunit),
                       file_mtime |-> disk[target].mtime,
                       ingested_at |-> cur.now,
                       is_current |-> TRUE,
                       supersedes_id |-> prev]
           IN
           IF commitFail THEN
               /\ last' = Result("ingest", "db_error", cur.name, cur.confirm, NULL, NULL,
                                 cur.faults \cup {"commit"})
               /\ UNCHANGED rows
           ELSE
               /\ rows' = Append(Supersede(rows, prev), rec)
               /\ last' = Result("ingest", "ok", cur.name, cur.confirm, prev, rec.id, cur.faults)
    /\ pc' = "idle"
    /\ cur' = Idle
    /\ IF last'.result = "ok" THEN invalidate_caches ELSE UNCHANGED TILES_CACHE
    /\ UNCHANGED <<children, disk, clock, refresh_state>>

\* ---- upload_tiles_delete: remove an upload from the tmp directory ----
upload_tiles_delete(name) ==
    /\ Begin
    /\ TmpPath(name) \in DOMAIN disk
    /\ disk' = Unlink(disk, TmpPath(name))
    /\ last' = Result("upload_delete", "ok", name, FALSE, NULL, NULL, {})
    /\ UNCHANGED <<rows, children, refresh_state, pc, cur, TILES_CACHE>>

\* ---- admin_delete_file ----
\* The loop over recs.  st carries the session's rows, the disk and the
\* handler's locals archived / deleted_records / errors; archived is set
\* once before the loop and never reset.  failing: the recs whose
\* shutil.move raises.
RECURSIVE DeleteLoop(_, _, _, _)
DeleteLoop(recs, st, ts, failing) ==
    IF recs = <<>> THEN st
    ELSE LET rec == Head(recs)
             src == st.rows[rec].path
             exists == src \in DOMAIN st.disk
             dest == ArchPath("", ts, src.name)
             mv == ArchiveMove(st.disk, src, dest, rec \in failing)
             raised == exists /\ mv.raised
             archived == IF exists /\ ~mv.raised THEN dest ELSE st.archived
             st1 == IF raised
                    THEN [st EXCEPT !.disk = mv.disk, !.errors = @ + 1]
                    ELSE [st EXCEPT !.disk = IF exists THEN mv.disk ELSE @,
                                    !.archived = archived,
                                    !.rows = [@ EXCEPT ![rec].is_current = FALSE,
                                                       ![rec].path = IF archived # NoPath
                                                                     THEN archived ELSE @],
                                    !.deleted = @ + 1]
         IN DeleteLoop(Tail(recs), st1, ts, failing)

DeleteResult(op, names, deleted, errors, failing) ==
    [op |-> op, result |-> "ok", names |-> names,
     deleted |-> deleted, errors |-> errors, faults |-> failing]

admin_delete_file(name, failing) ==
    /\ Begin
    /\ LET recs == CurrentByName(rows, name)
           st == DeleteLoop(SortedIds(recs),
                            [rows |-> rows, disk |-> disk, archived |-> NoPath,
                             deleted |-> 0, errors |-> 0],
                            clock, failing)
       IN /\ recs # {}      \* "Not found or not current" otherwise
          /\ failing \subseteq {i \in recs : rows[i].path \in DOMAIN disk}
          /\ rows' = st.rows
          /\ disk' = st.disk
          /\ last' = DeleteResult("delete", <<name>>, st.deleted, st.errors, failing)
    /\ invalidate_caches
    /\ UNCHANGED <<children, refresh_state, pc, cur>>

\* ---- admin_delete_files_bulk ----
\* The inner loop over the recs of one name: archived starts as None for
\* every rec, and the row is updated whether or not the move raised.
RECURSIVE BulkRecLoop(_, _, _, _)
BulkRecLoop(recs, st, ts, failing) ==
    IF recs = <<>> THEN st
    ELSE LET rec == Head(recs)
             src == st.rows[rec].path
             exists == src \in DOMAIN st.disk
             dest == ArchPath("", ts, src.name)
             mv == ArchiveMove(st.disk, src, dest, rec \in failing)
             archived == IF exists /\ ~mv.raised THEN dest ELSE NoPath
             st1 == [st EXCEPT !.disk = IF exists THEN mv.disk ELSE @,
                               !.errors = IF exists /\ mv.raised THEN @ + 1 ELSE @,
                               !.rows = [@ EXCEPT ![rec].is_current = FALSE,
                                                  ![rec].path = IF archived # NoPath
                                                                THEN archived ELSE @]]
         IN BulkRecLoop(Tail(recs), st1, ts, failing)

\* The outer loop over the names of the request
RECURSIVE BulkNameLoop(_, _, _, _)
BulkNameLoop(names, st, ts, failing) ==
    IF names = <<>> THEN st
    ELSE LET recs == CurrentByName(st.rows, Head(names))
             st1 == IF recs = {} THEN [st EXCEPT !.errors = @ + 1]
                    ELSE [BulkRecLoop(SortedIds(recs), st, ts, failing) EXCEPT !.deleted = @ + 1]
         IN BulkNameLoop(Tail(names), st1, ts, failing)

\* The name lists a bulk request carries
BulkRequests == {<<n>> : n \in Names} \cup {NameOrder}

admin_delete_files_bulk(names, failing) ==
    /\ Begin
    /\ LET st == BulkNameLoop(names,
                              [rows |-> rows, disk |-> disk, deleted |-> 0, errors |-> 0],
                              clock, failing)
           targets == UNION {CurrentByName(rows, names[k]) : k \in DOMAIN names}
       IN /\ targets # {}
          /\ failing \subseteq {i \in targets : rows[i].path \in DOMAIN disk}
          /\ rows' = st.rows
          /\ disk' = st.disk
          /\ last' = DeleteResult("delete_bulk", names, st.deleted, st.errors, failing)
    /\ invalidate_caches
    /\ UNCHANGED <<children, refresh_state, pc, cur>>

\* ---- admin_delete_deleted_file: unlink an archived, non-current file ----
admin_delete_deleted_file_HardDeletes(file_id) ==
    /\ Begin
    /\ file_id \in DOMAIN rows
    /\ ~rows[file_id].is_current
    /\ rows[file_id].path \in DOMAIN disk
    /\ disk' = Unlink(disk, rows[file_id].path)
    /\ rows' = IF file_id = Len(rows) THEN SubSeq(rows, 1, Len(rows) - 1) ELSE rows
    /\ last' = [op |-> "delete_deleted", result |-> "removed", id |-> file_id]
    /\ invalidate_caches
    /\ UNCHANGED <<children, refresh_state, pc, cur>>

admin_delete_deleted_file(file_id) ==
    /\ Begin
    /\ file_id \in DOMAIN rows
    /\ ~rows[file_id].is_current
    /\ rows[file_id].path \in DOMAIN disk     \* removed = False otherwise
    /\ disk' = Unlink(disk, rows[file_id].path)
    /\ last' = [op |-> "delete_deleted", result |-> "removed", id |-> file_id]
    /\ invalidate_caches
    /\ UNCHANGED <<rows, children, refresh_state, pc, cur>>

\* ---- sessions ----
\* What a unit-of-work flush writes for an attribute change made to the
\* object of row id: the UPDATE is emitted only for objects that belong to
\* the committing session.  An object loaded by a session that has since
\* been closed is detached, and assignments to it are written nowhere.
FlushFlip(rs, attached, id, archived_to) ==
    IF id \in attached
    THEN [rs EXCEPT ![id].is_current = FALSE,
                    ![id].path = IF archived_to # NoPath THEN archived_to ELSE @]
    ELSE rs

\* ---- admin_replace_file ----
admin_replace_file(existing_name, new_name, confirm, archFail, moveFail) ==
    /\ Begin
    /\ Len(rows) < MaxRows
    \* one_or_none(): the request ends without effect when no row or
    \* several rows are current for the name, or the tmp file is missing
    /\ Cardinality(CurrentByName(rows, existing_name)) = 1
    /\ TmpPath(new_name) \in DOMAIN disk
    /\ LET found == CurrentByName(rows, existing_name)
           Done(result, prev, new, faults) ==
               last' = [op |-> "replace", result |-> result, name |-> existing_name,
                        new_name |-> new_name, confirm |-> confirm, prev |-> prev,
                        new |-> new, faults |-> faults]
       IN
       IF ParseRaises(disk[TmpPath(new_name)].content) THEN
           Done("parse_error", NULL, NULL, {}) /\ UNCHANGED <<rows, disk>>
       ELSE
           LET existing_rec == CHOOSE i \in found : TRUE
               tile == parse_pb_to_tile(disk[TmpPath(new_name)].content)
               webpage_val == strip(tile.webpage_name)
               conflicts == webpage_val # <<>>
                            /\ CurrentByWebpage(rows, webpage_val) \ {existing_rec} # {}
           IN
           IF conflicts /\ ~confirm THEN
               Done("requires_confirm", NULL, NULL, {}) /\ UNCHANGED <<rows, disk>>
           ELSE
               LET src_path == rows[existing_rec].path
                   exists == src_path \in DOMAIN disk
                   dest == ArchPath("replaced_", clock, existing_name)
                   mv == ArchiveMove(disk, src_path, dest, archFail)
                   disk1 == IF exists THEN mv.disk ELSE disk
                   archived_to == IF exists /\ ~mv.raised THEN dest ELSE NoPath
                   target == PbPath(existing_name)
                   unlinked == IF target \in DOMAIN disk1 THEN Unlink(disk1, target) ELSE disk1
                   new_rec == [id |-> Len(rows) + 1,
                               file_name |-> existing_name,
                               path |-> target,
                               webpage_name |-> tile.webpage_name,
                               group_key |-> build_group_key(tile.country, tile.unit,
                                                             tile.instance, tile.subunit),
                               file_mtime |-> disk[TmpPath(new_name)].mtime,
                               ingested_at |-> clock,
                               is_current |-> TRUE,
                               supersedes_id |-> existing_rec]
               IN
               IF exists /\ mv.raised THEN
                   /\ Done("archive_error", NULL, NULL, {"archive_move"})
                   /\ disk' = disk1
                   /\ UNCHANGED rows
               ELSE IF moveFail THEN
                   /\ Done("move_error", NULL, NULL, {"move"})
                   /\ disk' = unlinked
                   /\ UNCHANGED rows
               ELSE
                   \* existing_rec was loaded by the first session, closed since
                   /\ rows' = Append(FlushFlip(rows, {}, existing_rec, archived_to), new_rec)
                   /\ disk' = Move(unlinked, TmpPath(new_name), target)
                   /\ Done("ok", existing_rec, new_rec.id, {})
    /\ IF last'.result = "ok" THEN invalidate_caches ELSE UNCHANGED TILES_CACHE
    /\ UNCHANGED <<children, refresh_state, pc, cur>>

NextAdmin ==
    \/ \E name \in Names, content \in Contents : upload_tiles(name, content)
    \/ \E name \in Names : upload_tiles_delete(name)
    \/ \E name \in Names, confirm \in BOOLEAN, archFail \in BOOLEAN, commitFail \in BOOLEAN :
          IngestArchive(name, confirm, archFail, commitFail)
    \/ \E moveFail \in BOOLEAN : IngestMove(moveFail)
    \/ \E commitFail \in BOOLEAN : IngestInsert(commitFail)
    \/ \E name \in Names : \E failing \in SUBSET CurrentByName(rows, name) :
          admin_delete_file(name, failing)
    \/ \E names \in BulkRequests, failing \in SUBSET {i \in DOMAIN rows : rows[i].is_current} :
          admin_delete_files_bulk(names, failing)
    \/ \E id \in 1..MaxRows : admin_delete_deleted_file(id)
    \/ \E existing_name \in Names, new_name \in Names, confirm \in BOOLEAN,
          archFail \in BOOLEAN, moveFail \in BOOLEAN :
          admin_replace_file(existing_name, new_name, confirm, archFail, moveFail)

SpecAdmin == Init /\ [][NextAdmin]_vars

\* ---- the canonical directory changes outside the application ----
\* a file is copied into pb_files; its mtime is the copy's (now) or the
\* original's (an old one)
ExternalPut(name, content, mtime) ==
    /\ BeginBatch
    /\ mtime \in {1, clock}
    /\ disk' = [q \in DOMAIN disk \cup {PbPath(name)} |->
                  IF q = PbPath(name) THEN [content |-> content, mtime |-> mtime] ELSE disk[q]]
    /\ last' = Result("put", "ok", name, FALSE, NULL, NULL, {})
    /\ UNCHANGED <<rows, children, refresh_state, pc, cur, TILES_CACHE>>

\* a file is removed from pb_files
ExternalRemove(name) ==
    /\ BeginBatch
    /\ PbPath(name) \in DOMAIN disk
    /\ disk' = Unlink(disk, PbPath(name))
    /\ last' = Result("remove", "ok", name, FALSE, NULL, NULL, {})
    /\ UNCHANGED <<rows, children, refresh_state, pc, cur, TILES_CACHE>>

\* ---- scripts/db_refresh.py ----
\* collect_files: sorted(folder.glob("*.pb"))
collect_files(d) == SelectSeq(NameOrder, LAMBDA n : PbPath(n) \in DOMAIN d)

\* The child rows refresh adds for a new version, all is_active = True
NewChildren(content, file_id) ==
    {[kind |-> "comment", file_id |-> file_id, idx |-> k, is_active |-> TRUE] :
        k \in 1..content.comments}
    \cup {[kind |-> "category", file_id |-> file_id, idx |-> k, is_active |-> TRUE] :
        k \in 1..content.categories}
    \cup {[kind |-> "target", file_id |-> file_id, idx |-> k, is_active |-> TRUE] :
        k \in 1..content.targets}

\* PBFile(...): the row object ingest_file constructs from the parsed tile
PBFile(name, mtime, id, now, tile) ==
    [id |-> id,
     file_name |-> name,
     path |-> PbPath(name),
     webpage_name |-> tile.webpage_name,
     group_key |-> build_group_key(tile.country, tile.unit, tile.instance, tile.subunit),
     file_mtime |-> mtime,
     ingested_at |-> now,
     is_current |-> TRUE,
     supersedes_id |-> NULL]

\* ingest_file: the PBFile object built for a file of the canonical directory
ingest_file(name, file, id, now) ==
    PBFile(name, file.mtime, id, now, parse_pb_to_tile(file.content))

\* One iteration of the for loop of refresh, for a file and the object rec
\* ingest_file builds from it.  st is the session: db / kids are the rows
\* the transaction has written so far (s.flush), pending the child objects
\* added but not flushed yet (the session is autoflush=False), and the
\* counters.  base is the committed state s.rollback() returns to.
RefreshFile(st, base, ctx, name, file, rec) ==
    LET prevs == CurrentByGroup(st.db, rec.group_key)
        prev == IF prevs = {} THEN NULL ELSE CHOOSE i \in prevs : TRUE
        \* raised inside the try: the file is gone or malformed when it is
        \* read, one_or_none() finds several rows, or the flush fails
        raises == \/ ctx.fault = [kind |-> "read", name |-> name]
                  \/ ParseRaises(file.content)
                  \/ Cardinality(prevs) > 1
                  \/ /\ ctx.fault = [kind |-> "db", name |-> name]
                     /\ ~(prev # NULL /\ rec.file_mtime <= st.db[prev].file_mtime
                          /\ st.db[prev].path = rec.path)
    IN IF ctx.fault = [kind |-> "stat", name |-> name] THEN
           \* p.stat() stands before the try: the exception leaves refresh
           [st EXCEPT !.halted = TRUE]
       ELSE IF ctx.last # NULL /\ file.mtime <= ctx.last THEN
           [st EXCEPT !.skipped = @ + 1]
       ELSE IF raises THEN
           [st EXCEPT !.failed = @ + 1, !.db = base.rows, !.kids = base.children,
                      !.pending = {}]
       ELSE IF prev # NULL /\ rec.file_mtime <= st.db[prev].file_mtime
               /\ st.db[prev].path = rec.path THEN
           [st EXCEPT !.skipped = @ + 1]
       ELSE
           [st EXCEPT !.db = Append(@, [rec EXCEPT !.supersedes_id = prev]),
                      !.kids = @ \cup st.pending,
                      !.pending = NewChildren(file.content, rec.id),
                      !.groups = @ \cup {rec.group_key},
                      !.processed = @ + 1]

\* The for loop of refresh over the collected files
RECURSIVE RefreshLoop(_, _, _, _)
RefreshLoop(files, st, base, ctx) ==
    IF files = <<>> \/ st.halted THEN st
    ELSE RefreshLoop(Tail(files),
                     RefreshFile(st, base, ctx, Head(files), ctx.disk[PbPath(Head(files))],
                                 ingest_file(Head(files), ctx.disk[PbPath(Head(files))],
                                             Len(st.db) + 1, ctx.now)),
                     base, ctx)

\* mark_group_current: the row that comes first by (file_mtime desc, id desc)
\* is current, every other row of the group is not
mark_group_current(rs, group_key) ==
    LET items == {i \in DOMAIN rs : rs[i].group_key = group_key}
        latest_id == IF items = {} THEN NULL
                     ELSE CHOOSE i \in items : \A j \in items :
                            \/ rs[j].file_mtime < rs[i].file_mtime
                            \/ (rs[j].file_mtime = rs[i].file_mtime /\ j <= i)
    IN [i \in DOMAIN rs |-> IF i \in items THEN [rs[i] EXCEPT !.is_current = (i = latest_id)]
                            ELSE rs[i]]

RECURSIVE MarkGroups(_, _)
MarkGroups(rs, groups) ==
    IF groups = {} THEN rs
    ELSE LET g == CHOOSE g \in groups : TRUE
         IN MarkGroups(mark_group_current(rs, g), groups \ {g})

\* query(child).filter(file_id == f.id).update({is_active: v}): an UPDATE
\* statement, which reaches the rows the transaction has written
UpdateChildren(kids, ids, active) ==
    {IF k.file_id \in ids THEN [k EXCEPT !.is_active = active[k.file_id]] ELSE k : k \in kids}

\* refresh after its for loop: the touched groups are marked, the missing
\* currents are swept, and the transaction commits.  marked holds the
\* objects of the session after mark_group_current.
RefreshCommit(full, files, now, st, marked) ==
    LET touched == {i \in DOMAIN marked : marked[i].group_key \in st.groups}
        kids1 == UpdateChildren(st.kids, touched, [i \in touched |-> marked[i].is_current])
        \* the sweep selects by the is_current the database holds
        present_names == {files[k] : k \in DOMAIN files}
        missing_currents == {i \in DOMAIN st.db :
                                st.db[i].is_current /\ st.db[i].file_name \notin present_names}
    IN /\ rows' = [i \in DOMAIN marked |->
                     IF i \in missing_currents THEN [marked[i] EXCEPT !.is_current = FALSE]
                     ELSE marked[i]]
       /\ children' = UpdateChildren(kids1, missing_currents,
                                     [i \in missing_currents |-> FALSE]) \cup st.pending
       /\ pc' = "refresh_stamp"
       /\ cur' = [op |-> "refresh", full |-> full, now |-> now, total |-> Len(files),
                  processed |-> st.processed, skipped |-> st.skipped, failed |-> st.failed,
                  groups |-> st.groups, rows0 |-> rows,
                  last |-> IF full THEN NULL ELSE refresh_state.last_refresh_at]

\* An exception leaves the with block: get_session rolls back, refresh
\* raises, and neither the timestamp nor a summary is written.
RefreshAbort(full, files, fault) ==
    /\ last' = [op |-> "refresh", result |-> "raised", full |-> full, total |-> Len(files),
                fault |-> fault]
    /\ UNCHANGED <<rows, children, pc, cur>>

RefreshRun(full, files, now, st, fault) ==
    IF st.halted THEN RefreshAbort(full, files, fault)
    ELSE RefreshCommit(full, files, now, st, MarkGroups(st.db, st.groups))
         /\ UNCHANGED last

\* What can go wrong for one file of a run: it vanishes between the glob
\* and p.stat() ("stat"), it vanishes after p.stat() ("read"), or the
\* database refuses its flush ("db").
NoFault == [kind |-> "none", name |-> ""]
RefreshFaults(files) ==
    {NoFault} \cup {[kind |-> k, name |-> files[i]] : k \in {"stat", "read", "db"},
                                                    i \in DOMAIN files}

refresh(full, fault) ==
    /\ BeginBatch
    /\ fault \in RefreshFaults(collect_files(disk))
    /\ Len(rows) + Len(collect_files(disk)) <= MaxRows
    /\ RefreshRun(full, collect_files(disk), clock,
                  RefreshLoop(collect_files(disk),
                              [db |-> rows, kids |-> children, pending |-> {}, groups |-> {},
                               processed |-> 0, skipped |-> 0, failed |-> 0, halted |-> FALSE],
                              [rows |-> rows, children |-> children],
                              [disk |-> disk, now |-> clock, fault |-> fault,
                               last |-> IF full THEN NULL ELSE refresh_state.last_refresh_at]),
                  fault)
    /\ disk' = IF fault.kind \in {"stat", "read"} THEN Unlink(disk, PbPath(fault.name))
               ELSE disk
    /\ UNCHANGED <<refresh_state, TILES_CACHE>>

\* (variant: a row that exists already is cleared instead of updated)
RefreshStateRow_ClearsExisting(rs, when) ==
    [last_refresh_at |-> when,
     last_completed_at |-> IF rs.last_completed_at = NULL THEN when ELSE NULL]

\* save_refresh_timestamp(kind, when): the row is created if it is missing,
\* and both of its timestamps are set to when
RefreshStateRow(rs, when) == [last_refresh_at |-> when, last_completed_at |-> when]

\* save_refresh_timestamp("pb", now), in a transaction of its own, and the
\* summary refresh returns
save_refresh_timestamp ==
    /\ pc = "refresh_stamp"
    /\ refresh_state' = RefreshStateRow(refresh_state, cur.now)
    /\ last' = [op |-> "refresh", result |-> "ok", full |-> cur.full, total |-> cur.total,
                processed |-> cur.processed, skipped |-> cur.skipped, failed |-> cur.failed,
                groups |-> cur.groups, last_refresh_prev |-> cur.last,
                refreshed_at |-> cur.now]
    /\ pc' = "idle"
    /\ cur' = Idle
    /\ UNCHANGED <<rows, children, disk, clock, TILES_CACHE>>

NextIngest ==
    \/ \E name \in Names, content \in Contents : upload_tiles(name, content)
    \/ \E name \in Names, confirm \in BOOLEAN, archFail \in BOOLEAN, commitFail \in BOOLEAN :
          IngestArchive(name, confirm, archFail, commitFail)
    \/ \E moveFail \in BOOLEAN : IngestMove(moveFail)
    \/ \E commitFail \in BOOLEAN : IngestInsert(commitFail)

SpecIngest == Init /\ [][NextIngest]_vars

Next ==
    \/ NextAdmin
    \/ /\ clock <= MaxClock
       /\ \E name \in Names, content \in Contents, mtime \in {1, clock} :
             ExternalPut(name, content, mtime)
    \/ clock <= MaxClock /\ \E name \in Names : ExternalRemove(name)
    \/ clock <= MaxClock /\ \E full \in BOOLEAN : \E fault \in RefreshFaults(collect_files(disk)) :
             refresh(full, fault)
    \/ save_refresh_timestamp

Spec == Init /\ [][Next]_vars

\* ingest, delete and batch refresh only (with the uploads and the changes
\* of the canonical directory they work on)
NextVersioning ==
    \/ \E name \in Names, content \in Contents : upload_tiles(name, content)
    \/ \E name \in Names, confirm \in BOOLEAN, archFail \in BOOLEAN, commitFail \in BOOLEAN :
          IngestArchive(name, confirm, archFail, commitFail)
    \/ \E moveFail \in BOOLEAN : IngestMove(moveFail)
    \/ \E commitFail \in BOOLEAN : IngestInsert(commitFail)
    \/ \E name \in Names : \E failing \in SUBSET CurrentByName(rows, name) :
          admin_delete_file(name, failing)
    \/ /\ clock <= MaxClock
       /\ \E name \in Names, content \in Contents, mtime \in {1, clock} :
             ExternalPut(name, content, mtime)
    \/ clock <= MaxClock /\ \E name \in Names : ExternalRemove(name)
    \/ clock <= MaxClock /\ \E full \in BOOLEAN : \E fault \in RefreshFaults(collect_files(disk)) :
             refresh(full, fault)
    \/ save_refresh_timestamp

SpecVersioning == Init /\ [][NextVersioning]_vars

\* ---- app/services/pb_service.py: the signature-keyed read cache ----
\* _db_signature(): last_completed_at of the refresh_state row, or None
db_signature(rs) == rs.last_completed_at

\* The tiles get_tiles_cached builds: one per current row
BuildTiles(rs) ==
    {[id |-> i, file_name |-> rs[i].file_name, webpage_name |-> rs[i].webpage_name] :
        i \in {j \in DOMAIN rs : rs[j].is_current}}

\* setattr(tiles, "_db_sig", db_sig) inside try / except Exception: pass.
\* tiles is a plain list, which takes no new attribute: setattr raises
\* AttributeError, and getattr(tiles, "_db_sig", None) stays None.
SetDbSig(tiles, db_sig) == [built |-> TRUE, tiles |-> tiles, db_sig |-> NULL]

\* get_tiles_cached(), called by GET /api/tiles
get_tiles_cached(w) ==
    /\ Begin
    /\ IF TILES_CACHE[w].built /\ TILES_CACHE[w].db_sig = db_signature(refresh_state) THEN
           /\ last' = [op |-> "get_tiles", result |-> "hit", tiles |-> TILES_CACHE[w].tiles,
                       db_sig |-> db_signature(refresh_state), was |-> TILES_CACHE[w],
                       worker |-> w]
           /\ UNCHANGED TILES_CACHE
       ELSE
           /\ TILES_CACHE' = [TILES_CACHE EXCEPT
                                ![w] = SetDbSig(BuildTiles(rows), db_signature(refresh_state))]
           /\ last' = [op |-> "get_tiles", result |-> "rebuilt", tiles |-> BuildTiles(rows),
                       db_sig |-> db_signature(refresh_state), was |-> TILES_CACHE[w],
                       worker |-> w]
    /\ UNCHANGED <<rows, children, disk, refresh_state, pc, cur>>

\* reads of the catalogue between batch runs and soft deletes
NextCache ==
    \/ \E w \in Workers : get_tiles_cached(w)
    \/ /\ clock <= MaxClock
       /\ \E name \in Names, content \in Contents, mtime \in {1, clock} :
             ExternalPut(name, content, mtime)
    \/ clock <= MaxClock /\ \E full \in BOOLEAN : refresh(full, NoFault)
    \/ save_refresh_timestamp
    \/ \E name \in Names : admin_delete_file(name, {})

SpecCache == Init /\ [][NextCache]_vars

\* reads of the catalogue by the workers between interactive ingests and
\* deletes, no batch run
NextWorkers ==
    \/ \E w \in Workers : get_tiles_cached(w)
    \/ \E name \in Names, content \in Contents : upload_tiles(name, content)
    \/ \E name \in Names, confirm \in BOOLEAN :
          IngestArchive(name, confirm, FALSE, FALSE)
    \/ IngestMove(FALSE)
    \/ IngestInsert(FALSE)
    \/ \E name \in Names : admin_delete_file(name, {})

SpecWorkers == Init /\ [][NextWorkers]_vars

\* ---- app/utils/load_pb_file.py: parse_pb_lines ----
\* A file is the sequence of rows csv.reader(delimiter=";") yields, a row
\* the sequence of its cells; a blank line is the empty row.

\* str.strip() on the cells of the files below
CellStrip(c) ==
    CASE c = " cost " -> "cost"
      [] c = " 5 " -> "5"
      [] OTHER -> c

\* str.lower() on the cells of the files below
CellLower(c) ==
    CASE c = "META" -> "meta"
      [] c = "PROJECTS" -> "projects"
      [] c = "VOTES" -> "votes"
      [] c = "PROJECT_ID" -> "project_id"
      [] OTHER -> c

\* key in header, on a list
InRow(c, row) == \E k \in DOMAIN row : row[k] = c

\* d[k] = v on a dict
DictPut_Replaces(d, k, v) == [x \in {k} |-> v]

DictPut(d, k, v) == [x \in DOMAIN d \cup {k} |-> IF x = k THEN v ELSE d[x]]

EmptyDict == << >>

\* for it, key in enumerate(header[1:]): if it + 1 < len(row):
\*     entry[key.strip()] = row[it + 1].strip()
\* j is the 1-based position in header and row
RECURSIVE FillEntry(_, _, _, _)
FillEntry(entry, header, row, j) ==
    IF j > Len(header) THEN entry
    ELSE FillEntry(IF j <= Len(row)
                   THEN DictPut(entry, CellStrip(header[j]), CellStrip(row[j]))
                   ELSE entry,
                   header, row, j + 1)

\* bool(votes.get(vid)): the key is there and its dict is not empty
VotesGetTruthy(votes, vid) == vid \in DOMAIN votes /\ DOMAIN votes[vid] # {}

ParseStart ==
    [meta |-> EmptyDict, projects |-> EmptyDict, votes |-> EmptyDict,
     section |-> "", header |-> << >>,
     votes_in_projects |-> FALSE, scores_in_projects |-> FALSE, raised |-> "none"]

\* a section line: header = next(reader), validated when not empty
SectionLine(st, first, header) ==
    LET check_header == IF header = << >> THEN "" ELSE CellLower(CellStrip(header[1]))
        bad == /\ header # << >>
               /\ \/ first = "projects" /\ check_header # "project_id"
                  \/ first = "votes" /\ check_header # "voter_id"
    IN [st EXCEPT !.section = first, !.header = header,
                  !.raised = IF bad THEN "ValueError" ELSE @]

\* a row of the current section
DataRow(st, row) ==
    CASE st.section = "meta" ->
            IF Len(row) >= 2
            THEN [st EXCEPT !.meta = DictPut(@, row[1], CellStrip(row[2]))]
            ELSE st
      [] st.section = "projects" ->
            [st EXCEPT
               !.votes_in_projects = InRow("votes", st.header) \/ @,
               !.scores_in_projects = InRow("score", st.header) \/ @,
               !.projects = DictPut(@, row[1],
                                    FillEntry(DictPut(EmptyDict, "project_id", row[1]),
                                              st.header, row, 2))]
      [] st.section = "votes" ->
            IF VotesGetTruthy(st.votes, row[1])
            THEN [st EXCEPT !.raised = "RuntimeError"]
            ELSE [st EXCEPT !.votes = DictPut(@, row[1],
                                              FillEntry(EmptyDict, st.header, row, 2))]
      [] OTHER -> st

\* for row in reader: ... from row i on
RECURSIVE ParseRows(_, _, _)
ParseRows(lines, i, st) ==
    IF i > Len(lines) \/ st.raised # "none" THEN st
    ELSE IF lines[i] = << >> THEN ParseRows(lines, i + 1, st)
    ELSE IF CellLower(CellStrip(lines[i][1])) \in {"meta", "projects", "votes"}
    THEN ParseRows(lines, i + 2,
                   SectionLine(st, CellLower(CellStrip(lines[i][1])),
                               IF i + 1 <= Len(lines) THEN lines[i + 1] ELSE << >>))
    ELSE ParseRows(lines, i + 1, DataRow(st, lines[i]))

parse_pb_lines(lines) == ParseRows(lines, 1, ParseStart)

\* The files parsed: an optional META section, a PROJECTS section and a
\* VOTES section, each a section line, a header row and data rows.
ProjectHeaders == {<<"project_id">>, <<"PROJECT_ID", " cost ">>, <<"id", "cost">>}

ProjectRows == {<<"1">>, <<"2">>, <<"1", " 5 ">>, <<"2", "">>}

VoteHeaders == {<<"voter_id">>, <<"voter_id", "vote">>}

VoteRows == {<<"1">>, <<"2">>, <<"1", "2">>, <<"1", "">>, <<"2", "1">>}

SeqsUpTo(S, n) == UNION {[1..k -> S] : k \in 0..n}

MetaSection(hasMeta) ==
    IF hasMeta THEN <<<<"META">>, <<"key", "value">>, <<"country", "A">>>> ELSE << >>

\* gap: a blank line stands between the PROJECTS line and the header
BlankLine(gap) == IF gap THEN << << >> >> ELSE << >>

PbLines(f) ==
    MetaSection(f.hasMeta) \o <<<<"PROJECTS">>>> \o BlankLine(f.gap) \o <<f.ph>> \o f.prows
                           \o <<<<"VOTES">>, f.vh>> \o f.vrows

PbFiles ==
    [hasMeta : BOOLEAN, gap : BOOLEAN,
     ph : ProjectHeaders, prows : SeqsUpTo(ProjectRows, MaxProjects),
     vh : VoteHeaders, vrows : SeqsUpTo(VoteRows, MaxVoters)]

\* one call of parse_pb_lines on a file
InitParse ==
    /\ rows = <<>>
    /\ children = {}
    /\ disk = <<>>
    /\ clock = 1
    /\ refresh_state = NoRefreshState
    /\ pc = "parse"
    /\ \E f \in PbFiles : cur = [op |-> "parse", file |-> f, lines |-> PbLines(f)]
    /\ last = Result("none", "none", "", FALSE, NULL, NULL, {})
    /\ TILES_CACHE = [w \in Workers |-> NoCache]

ParseCall ==
    /\ pc = "parse"
    /\ pc' = "parsed"
    /\ last' = [op |-> "parse", out |-> parse_pb_lines(cur.lines)]
    /\ UNCHANGED <<rows, children, disk, clock, refresh_state, cur, TILES_CACHE>>

NextParse == ParseCall

SpecParse == InitParse /\ [][NextParse]_vars

\* ---- app/utils/pb_utils.py: parse_comments_from_meta ----
\* (scripts/db_refresh.py has the same function as _parse_comments_from_meta)
\* A text is the sequence of its characters.

\* str(n) for the marker numbers
Digit(n) ==
    CASE n = 1 -> "1" [] n = 2 -> "2" [] n = 3 -> "3" [] n = 4 -> "4" [] OTHER -> "9"

\* f"#{expecting}:"
Marker(n) == <<"#", Digit(n), ":">>

\* s.find(sub, start): the lowest position >= start where sub stands, 0 if
\* there is none (positions count from 1)
RECURSIVE Find(_, _, _)
Find(s, sub, start) ==
    IF start + Len(sub) - 1 > Len(s) THEN 0
    ELSE IF SubSeq(s, start, start + Len(sub) - 1) = sub THEN start
    ELSE Find(s, sub, start + 1)

\* txt.strip(";.")
RECURSIVE StripPunct(_)
StripPunct(s) ==
    IF s # << >> /\ Head(s) \in {";", "."} THEN StripPunct(Tail(s))
    ELSE IF s # << >> /\ s[Len(s)] \in {";", "."} THEN StripPunct(SubSeq(s, 1, Len(s) - 1))
    ELSE s

\* raw.replace("\n", " ")
ReplaceNewlines(s) == [i \in 1..Len(s) |-> IF s[i] = "\n" THEN " " ELSE s[i]]

\* parts.append(txt) if txt
AppendIfText(parts, txt) == IF txt # << >> THEN Append(parts, txt) ELSE parts

\* the while True loop
RECURSIVE CommentLoop(_, _, _)
CommentLoop(s, expecting, parts) ==
    IF Find(s, Marker(expecting), 1) = 0
    THEN IF expecting = 1 /\ s # << >>
         THEN AppendIfText(parts, StripPunct(strip(s)))
         ELSE parts
    ELSE IF Find(s, Marker(expecting + 1), Find(s, Marker(expecting), 1) + 3) = 0
    THEN AppendIfText(parts,
            StripPunct(strip(SubSeq(s, Find(s, Marker(expecting), 1) + 3, Len(s)))))
    ELSE CommentLoop(s, expecting + 1,
            AppendIfText(parts,
               StripPunct(strip(SubSeq(s, Find(s, Marker(expecting), 1) + 3,
                  Find(s, Marker(expecting + 1), Find(s, Marker(expecting), 1) + 3) - 1)))))

parse_comments_from_meta(comment) ==
    IF strip(comment) = << >> THEN << >>
    ELSE CommentLoop(ReplaceNewlines(strip(comment)), 1, << >>)

\* app/routes.py: [f"#{i+1}: {txt}" for i, txt in enumerate(_comments)],
\* the items written one after the other with a space between them
LabelComments(comments) ==
    [i \in 1..Len(comments) |-> Marker(i) \o <<" ">> \o comments[i]]

RECURSIVE JoinTexts(_)
JoinTexts(items) ==
    IF items = << >> THEN << >>
    ELSE IF Len(items) = 1 THEN items[1]
    ELSE items[1] \o <<" ">> \o JoinTexts(Tail(items))

\* The META comment fields extracted: #1: .. #k: in order, each followed
\* by a text of letters, spaces and punctuation
CommentChars == {"a", " ", ";"}

CommentTexts == SeqsUpTo(CommentChars, MaxCommentLen)

MarkTexts(texts) == [i \in 1..Len(texts) |-> Marker(i) \o texts[i]]

RECURSIVE Concat(_)
Concat(items) == IF items = << >> THEN << >> ELSE Head(items) \o Concat(Tail(items))

CommentFields == {Concat(MarkTexts(t)) : t \in SeqsUpTo(CommentTexts, MaxComments)}

\* extraction of a comment field, and extraction again of the labelled list
InitComments ==
    /\ rows = <<>>
    /\ children = {}
    /\ disk = <<>>
    /\ clock = 1
    /\ refresh_state = NoRefreshState
    /\ pc = "comments"
    /\ \E c \in CommentFields : cur = [op |-> "comments", comment |-> c, round |-> 1]
    /\ last = Result("none", "none", "", FALSE, NULL, NULL, {})
    /\ TILES_CACHE = [w \in Workers |-> NoCache]

ExtractComments ==
    /\ pc = "comments"
    /\ cur.round <= 2
    /\ last' = [op |-> "comments", round |-> cur.round,
                comments |-> parse_comments_from_meta(cur.comment),
                before |-> IF cur.round = 1 THEN << >> ELSE last.comments]
    /\ cur' = [op |-> "comments",
               comment |-> JoinTexts(LabelComments(parse_comments_from_meta(cur.comment))),
               round |-> cur.round + 1]
    /\ UNCHANGED <<rows, children, disk, clock, refresh_state, pc, TILES_CACHE>>

NextComments == ExtractComments

SpecComments == InitComments /\ [][NextComments]_vars

\* ---- app/utils/pb_utils.py: build_group_key on its own ----
\* n times the character c
Repeat(c, n) == [i \in 1..n |-> c]

\* The parts keys are built of: short ones that differ in case and in
\* surrounding spaces, and long ones that bring the key to MAXLEN and over
\* (a key has three separators besides its parts)
KeyParts ==
    {<< >>, <<"A">>, <<" ", "a", " ">>, <<"B">>}
    \cup {Repeat("a", MAXLEN - 3 + d) : d \in (0 - MaxSlack)..MaxSlack}
    \cup {Repeat("A", MAXLEN - 3 + MaxSlack)}

KeyInputs == KeyParts \X KeyParts \X {<< >>, <<"B">>} \X {<< >>, <<"b", " ">>}

\* two calls on one 4-tuple and one on another
InitGroupKey ==
    /\ rows = <<>>
    /\ children = {}
    /\ disk = <<>>
    /\ clock = 1
    /\ refresh_state = NoRefreshState
    /\ pc = "group_key"
    /\ \E a \in KeyInputs, b \in KeyInputs : cur = [op |-> "group_key", a |-> a, b |-> b]
    /\ last = Result("none", "none", "", FALSE, NULL, NULL, {})
    /\ TILES_CACHE = [w \in Workers |-> NoCache]

GroupKeyCalls ==
    /\ pc = "group_key"
    /\ pc' = "group_key_done"
    /\ last' = [op |-> "group_key",
                first |-> build_group_key(cur.a[1], cur.a[2], cur.a[3], cur.a[4]),
                second |-> build_group_key(cur.a[1], cur.a[2], cur.a[3], cur.a[4]),
                other |-> build_group_key(cur.b[1], cur.b[2], cur.b[3], cur.b[4])]
    /\ UNCHANGED <<rows, children, disk, clock, refresh_state, cur, TILES_CACHE>>

NextGroupKey == GroupKeyCalls

SpecGroupKey == InitGroupKey /\ [][NextGroupKey]_vars

\* ---- app/services/pb_service.py: the k-bounds labels ----
\* None, as the value of a bound
NONE == 0 - 1

\* str(n)
IntStr(n) ==
    CASE n = 0 -> "0" [] n = 1 -> "1" [] n = 2 -> "2" [] n = 3 -> "3"
      [] n = 4 -> "4" [] n = 5 -> "5" [] OTHER -> "?"

\* The values of a META number field: the key is absent, the value is
\* empty, a whole number, or the float text 1.0
MetaNumbers == {"absent", "", "1.0"} \cup {IntStr(n) : n \in 0..MaxBound}

\* _parse_int(meta.get(key)): int(float(str(val).strip())), None when the
\* text is empty or no number (str(None) is no number)
_parse_int(val) ==
    IF val \in {"absent", ""} THEN NONE
    ELSE IF val = "1.0" THEN 1
    ELSE IF \E n \in 0..5 : IntStr(n) = val THEN CHOOSE n \in 0..5 : IntStr(n) = val
    ELSE NONE

\* The labels, as the list of their pieces; "<=" stands for the one
\* character the code writes for less-or-equal.  NoLabel is None.
NoLabel == << >>

\* the if chain shared by the three functions, after the trivial lower
\* bound was dropped; unit is k or pts, neither the result without bounds
BoundsLabel(unit, min_k, max_k, neither) ==
    IF min_k = NONE /\ max_k = NONE THEN neither
    ELSE IF min_k # NONE /\ max_k # NONE /\ min_k = max_k THEN <<unit, "=", IntStr(min_k)>>
    ELSE IF min_k # NONE /\ max_k # NONE THEN <<IntStr(min_k), "<=", unit, "<=", IntStr(max_k)>>
    ELSE IF min_k # NONE THEN <<IntStr(min_k), "<=", unit>>
    ELSE <<unit, "<=", IntStr(max_k)>>

\* has_knapsack of _compute_approval_labels_from_meta
HasKnapsack(meta) ==
    \/ meta.max_sum_cost \notin {"absent", ""}
    \/ meta.subunit_knapsack

\* _compute_approval_labels_from_meta: (k_label, knapsack)
compute_approval_labels_from_meta(meta) ==
    IF HasKnapsack(meta) THEN [k_label |-> NoLabel, knapsack |-> TRUE]
    ELSE [k_label |-> BoundsLabel("k",
                         IF _parse_int(meta.min_length) = 1 THEN NONE
                         ELSE _parse_int(meta.min_length),
                         _parse_int(meta.max_length), <<"Any k">>),
          knapsack |-> FALSE]

\* _compute_ordinal_k_from_meta
compute_ordinal_k_from_meta(meta) ==
    BoundsLabel("k",
                IF _parse_int(meta.min_length) = 1 THEN NONE ELSE _parse_int(meta.min_length),
                _parse_int(meta.max_length), <<"Any k">>)

\* _compute_cumulative_points_from_meta: min_sum in (0, 1) is dropped, and
\* None is returned when there is no bound
compute_cumulative_points_from_meta(meta) ==
    BoundsLabel("pts",
                IF _parse_int(meta.min_sum_points) \in {0, 1} THEN NONE
                ELSE _parse_int(meta.min_sum_points),
                _parse_int(meta.max_sum_points), NoLabel)

LabelMetas ==
    [min_length : MetaNumbers, max_length : MetaNumbers,
     min_sum_points : MetaNumbers, max_sum_points : MetaNumbers,
     max_sum_cost : {"absent", "", "5"}, subunit_knapsack : BOOLEAN]

\* the three label functions on one META mapping
InitLabels ==
    /\ rows = <<>>
    /\ children = {}
    /\ disk = <<>>
    /\ clock = 1
    /\ refresh_state = NoRefreshState
    /\ pc = "labels"
    /\ \E meta \in LabelMetas : cur = [op |-> "labels", meta |-> meta]
    /\ last = Result("none", "none", "", FALSE, NULL, NULL, {})
    /\ TILES_CACHE = [w \in Workers |-> NoCache]

LabelCalls ==
    /\ pc = "labels"
    /\ pc' = "labels_done"
    /\ last' = [op |-> "labels",
                approval |-> compute_approval_labels_from_meta(cur.meta),
                ordinal |-> compute_ordinal_k_from_meta(cur.meta),
                cumulative |-> compute_cumulative_points_from_meta(cur.meta)]
    /\ UNCHANGED <<rows, children, disk, clock, refresh_state, cur, TILES_CACHE>>

NextLabels == LabelCalls

SpecLabels == InitLabels /\ [][NextLabels]_vars

\* the batch job run again and again while nothing fails
NextRerun ==
    \/ /\ clock <= MaxClock
       /\ \E name \in Names, content \in Contents, mtime \in {1, clock} :
             ExternalPut(name, content, mtime)
    \/ clock <= MaxClock /\ \E full \in BOOLEAN : refresh(full, NoFault)
    \/ save_refresh_timestamp

SpecRerun == Init /\ [][NextRerun]_vars

\* the batch job and the admin's delete of a current file
NextRevive ==
    \/ \E name \in Names, content \in Contents, mtime \in {1, clock} :
          ExternalPut(name, content, mtime)
    \/ \E full \in BOOLEAN : refresh(full, NoFault)
    \/ save_refresh_timestamp
    \/ \E name \in Names : admin_delete_file(name, {})

SpecRevive == Init /\ [][NextRevive]_vars

\* the batch job alone, with the changes of the canonical directory
NextBatch ==
    \/ \E name \in Names, content \in Contents, mtime \in {1, clock} :
          ExternalPut(name, content, mtime)
    \/ \E name \in Names : ExternalRemove(name)
    \/ \E full \in BOOLEAN : \E fault \in RefreshFaults(collect_files(disk)) :
             refresh(full, fault)
    \/ save_refresh_timestamp

SpecBatch == Init /\ [][NextBatch]_vars

\* ======================= properties =======================

RowsOfWebpage(rs, w) == {i \in DOMAIN rs : rs[i].webpage_name = w}

\* the PROJECTS header of the file does not start with project_id
Malformed(content) == content.projects_header # "project_id"

WebpageOf(content) == compute_webpage_name(content.meta).webpage_name

\* this step is a call of upload_tiles_ingest(n, c): it either goes on to
\* the move or returns at once
IngestCalled(n, c) ==
    /\ pc = "idle"
    /\ \/ pc' = "ingest_move" /\ cur'.name = n /\ cur'.confirm = c
       \/ pc' = "idle" /\ last'.op = "ingest" /\ last'.name = n /\ last'.confirm = c

\* this step is a call of admin_replace_file(existing, new)
ReplaceCalled(n, m) ==
    pc = "idle" /\ pc' = "idle" /\ last'.op = "replace" /\ last'.name = n /\ last'.new_name = m

\* C1: after any sequence of completed ingest, delete and batch-refresh
\* operations, every non-empty webpage_name has at most one row with
\* is_current = true.
C1_OneCurrentPerWebpage ==
    pc = "idle" =>
        \A i, j \in DOMAIN rows :
            (/\ rows[i].is_current
             /\ rows[j].is_current
             /\ rows[i].webpage_name # <<>>
             /\ rows[i].webpage_name = rows[j].webpage_name) => i = j

\* C2: when exactly one row exists for an identity, it is current and its
\* file is on disk, a confirmed ingest for that identity in which no
\* filesystem or database step fails ends with exactly two rows for the
\* identity: the original, not current and with its path in the archive
\* directory, and a new current row whose supersedes_id is the original's id.
C2_ConfirmedSupersession ==
    [][ (/\ pc = "ingest_db"
         /\ cur.confirm
         /\ cur.tile.webpage_name # <<>>
         /\ Cardinality(RowsOfWebpage(cur.rows0, cur.tile.webpage_name)) = 1
         /\ \A o \in RowsOfWebpage(cur.rows0, cur.tile.webpage_name) :
               cur.rows0[o].is_current /\ cur.rows0[o].path \in DOMAIN cur.disk0
         /\ last'.faults = {})
        => LET w == cur.tile.webpage_name
               o == CHOOSE o \in RowsOfWebpage(cur.rows0, w) : TRUE
               ids == RowsOfWebpage(rows', w)
           IN /\ last'.result = "ok"
              /\ Cardinality(ids) = 2
              /\ o \in ids
              /\ ~rows'[o].is_current
              /\ rows'[o].path.dir = "arch"
              /\ \A n \in ids \ {o} : rows'[n].is_current /\ rows'[n].supersedes_id = o
      ]_vars

C2_Witness ==
    /\ pc = "idle"
    /\ last.op = "ingest" /\ last.result = "ok" /\ last.confirm /\ last.faults = {}
    /\ last.prev # NULL
    /\ Cardinality(RowsOfWebpage(rows, rows[last.new].webpage_name)) = 2
    /\ rows[last.prev].path.dir = "arch"
    /\ rows[last.prev].path \in DOMAIN disk

\* C3: ingest(path, confirm=false) of a file whose non-empty webpage_name
\* already has a current row answers "confirmation required" and changes
\* nothing: no row inserted or modified, no file archived, and the upload
\* stays in the tmp directory.
C3_UnconfirmedChangesNothing ==
    [][ \A n \in Names :
          (/\ IngestCalled(n, FALSE)
           /\ TmpPath(n) \in DOMAIN disk
           /\ ~Malformed(disk[TmpPath(n)].content)
           /\ WebpageOf(disk[TmpPath(n)].content) # <<>>
           /\ \E i \in DOMAIN rows :
                 rows[i].is_current
                 /\ rows[i].webpage_name = WebpageOf(disk[TmpPath(n)].content))
          => /\ pc' = "idle"
             /\ last'.result = "requires_confirm"
             /\ rows' = rows
             /\ children' = children
             /\ disk' = disk
      ]_vars

C3_Witness ==
    /\ pc = "idle"
    /\ last.op = "ingest" /\ last.result = "requires_confirm" /\ ~last.confirm
    /\ TmpPath(last.name) \in DOMAIN disk
    /\ \E i \in DOMAIN rows :
          /\ rows[i].is_current
          /\ rows[i].webpage_name = WebpageOf(disk[TmpPath(last.name)].content)
          /\ rows[i].path.dir = "pb"

\* C4: ingest(path, confirm=false) of a well-formed file whose identity has
\* no row yet goes through (when no filesystem or database step fails) and
\* inserts exactly one row, with is_current = true and supersedes_id = null,
\* and the file ends up in the canonical directory.
C4_FreshIngest ==
    [][ /\ \A n \in Names :
              (/\ IngestCalled(n, FALSE)
               /\ TmpPath(n) \in DOMAIN disk
               /\ ~Malformed(disk[TmpPath(n)].content)
               /\ RowsOfWebpage(rows, WebpageOf(disk[TmpPath(n)].content)) = {})
              => pc' = "ingest_move" /\ rows' = rows
        /\ (/\ pc = "ingest_db"
            /\ ~cur.confirm
            /\ RowsOfWebpage(cur.rows0, cur.tile.webpage_name) = {}
            /\ last'.faults = {})
           => /\ last'.result = "ok"
              /\ Len(rows') = Len(cur.rows0) + 1
              /\ SubSeq(rows', 1, Len(cur.rows0)) = cur.rows0
              /\ rows'[Len(rows')].is_current
              /\ rows'[Len(rows')].supersedes_id = NULL
              /\ rows'[Len(rows')].path = PbPath(cur.name)
              /\ PbPath(cur.name) \in DOMAIN disk'
              /\ disk'[PbPath(cur.name)] = cur.disk0[TmpPath(cur.name)]
              /\ TmpPath(cur.name) \notin DOMAIN disk'
      ]_vars

C4_Witness ==
    /\ pc = "idle"
    /\ last.op = "ingest" /\ last.result = "ok" /\ ~last.confirm /\ last.faults = {}
    /\ last.prev = NULL
    /\ rows[last.new].is_current
    /\ rows[last.new].supersedes_id = NULL
    /\ Cardinality(RowsOfWebpage(rows, rows[last.new].webpage_name)) = 1
    /\ rows[last.new].path \in DOMAIN disk
    /\ Len(rows) > 1

\* C5: after replace(existingName, newTmpFile) reports success, the row
\* that was current for existingName is stored with is_current = false
\* (and with the archive path when its file was archived), the new row is
\* current, has file_name = existingName and supersedes the old row, and
\* exactly one row with file_name = existingName is current.
C5_ReplaceFlipsOld ==
    (pc = "idle" /\ last.op = "replace" /\ last.result = "ok") =>
        LET archived_to == ArchPath("replaced_", clock - 1, last.name)
        IN /\ ~rows[last.prev].is_current
           /\ archived_to \in DOMAIN disk => rows[last.prev].path = archived_to
           /\ rows[last.new].is_current
           /\ rows[last.new].file_name = last.name
           /\ rows[last.new].supersedes_id = last.prev
           /\ Cardinality(CurrentByName(rows, last.name)) = 1

\* C6: a delete (single or bulk) leaves no row of the deleted name current,
\* whether or not the move of its file into the archive raised.
C6_DeleteFlipsDespiteMoveFailure ==
    (pc = "idle" /\ last.op \in {"delete", "delete_bulk"}) =>
        \A k \in DOMAIN last.names : CurrentByName(rows, last.names[k]) = {}

\* C7: after every completed operation, every child row (comment, category,
\* target) has is_active equal to its parent row's is_current.
C7_ChildrenMirrorParent ==
    pc = "idle" => \A k \in children : k.is_active = rows[k.file_id].is_current

\* C8: when parsing the incoming file fails, ingest and replace report the
\* parse error and mutate nothing: no row inserted or modified, no file
\* archived, the incoming file not moved.
C8_ParseFailureMutatesNothing ==
    [][ /\ \A n \in Names, c \in BOOLEAN :
              (/\ IngestCalled(n, c)
               /\ TmpPath(n) \in DOMAIN disk
               /\ Malformed(disk[TmpPath(n)].content))
              => /\ pc' = "idle"
                 /\ last'.result = "parse_error"
                 /\ rows' = rows /\ children' = children /\ disk' = disk
        /\ \A n \in Names, m \in Names :
              (/\ ReplaceCalled(n, m)
               /\ TmpPath(m) \in DOMAIN disk
               /\ Malformed(disk[TmpPath(m)].content))
              => /\ last'.result = "parse_error"
                 /\ rows' = rows /\ children' = children /\ disk' = disk
      ]_vars

C8_Witness ==
    /\ pc = "idle"
    /\ last.op = "replace" /\ last.result = "parse_error"
    /\ TmpPath(last.new_name) \in DOMAIN disk
    /\ Malformed(disk[TmpPath(last.new_name)].content)
    /\ \E i \in CurrentByName(rows, last.name) : rows[i].path \in DOMAIN disk

\* C9: the record mutations of a confirmed ingest commit together: no
\* committed state has the old row's path in the archive while that row is
\* still current and no row supersedes it.
C9_OneTransaction ==
    \A i \in DOMAIN rows :
        (rows[i].path.dir = "arch" /\ rows[i].is_current)
        => \E j \in DOMAIN rows : rows[j].supersedes_id = i

\* C10: when the insert transaction of a confirmed ingest fails, the prior
\* current record is exactly as before the call: still current, same path.
C10_DbErrorLeavesPriorRecord ==
    [][ (pc = "ingest_db" /\ cur.confirm /\ last'.result = "db_error")
        => \A i \in CurrentByWebpage(cur.rows0, cur.tile.webpage_name) : rows'[i] = cur.rows0[i]
      ]_vars

\* rows of the group, and the one that comes first by (file_mtime desc, id desc)
RowsOfGroup(rs, g) == {i \in DOMAIN rs : rs[i].group_key = g}

IsLatestOfGroup(rs, i) ==
    \A j \in RowsOfGroup(rs, rs[i].group_key) :
        \/ rs[j].file_mtime < rs[i].file_mtime
        \/ (rs[j].file_mtime = rs[i].file_mtime /\ j <= i)

\* C11: when a batch refresh has completed, in every group it touched
\* exactly the row with the maximum file_mtime (ties broken by the highest
\* id) is current and every other row of the group is not.
C11_TouchedGroupsLatestCurrent ==
    (pc = "idle" /\ last.op = "refresh" /\ last.result = "ok")
    => \A g \in last.groups : \A i \in RowsOfGroup(rows, g) :
          rows[i].is_current <=> IsLatestOfGroup(rows, i)

\* C12: when a batch refresh has completed, no current row has its backing
\* file (the file at the row's path) absent from disk: every such row is
\* not current and has no active child row.
C12_NoCurrentRowWithoutFile ==
    (pc = "idle" /\ last.op = "refresh" /\ last.result = "ok")
    => \A i \in DOMAIN rows :
          rows[i].path \notin DOMAIN disk
          => /\ ~rows[i].is_current
             /\ \A k \in children : k.file_id = i => ~k.is_active

\* C13: in a batch refresh a failure on one file (a parse error, a database
\* error, the file vanishing) never halts the run: the run goes on to its
\* summary, which counts every scanned file exactly once
\* (processed + skipped + failed = total).
C13_FailureNeverHaltsRun ==
    (pc = "idle" /\ last.op = "refresh")
    => /\ last.result = "ok"
       /\ last.processed + last.skipped + last.failed = last.total

\* C14: the cache signal is written in the transaction of the batch that
\* produced changes: in no committed state are the rows written by a batch
\* refresh visible while last_completed_at still has its value from before
\* the batch.
C14_SignalInBatchTransaction ==
    (cur.op = "refresh" /\ rows # cur.rows0)
    => refresh_state.last_completed_at = cur.now

\* C15: across batch refreshes run one at a time, last_completed_at never
\* decreases and, once set, never reverts to unset; a refresh that raises
\* before it commits leaves it unchanged.
C15_CompletedAtMonotonic ==
    [][ /\ refresh_state'.last_completed_at >= refresh_state.last_completed_at
        /\ refresh_state.last_completed_at # NULL => refresh_state'.last_completed_at # NULL
        /\ (clock' # clock /\ last'.op = "refresh" /\ last'.result = "raised")
           => refresh_state' = refresh_state
      ]_vars

C15_Witness ==
    /\ pc = "idle"
    /\ last.op = "refresh" /\ last.result = "ok"
    /\ ~last.full
    /\ last.last_refresh_prev # NULL
    /\ refresh_state.last_completed_at = last.refreshed_at
    /\ refresh_state.last_completed_at > last.last_refresh_prev

\* C16: the signature-keyed read cache stores the signature with its
\* payload: a call returns the stored payload without rebuilding exactly
\* when a payload exists and was stored under the current signature, and
\* otherwise it rebuilds and stores the payload under the current signature.
C16_SignatureKeyedCache ==
    (pc = "idle" /\ last.op = "get_tiles")
    => /\ (last.result = "hit") <=> (last.was.built /\ last.was.db_sig = last.db_sig)
       /\ TILES_CACHE[last.worker].built
       /\ TILES_CACHE[last.worker].db_sig = last.db_sig
       /\ last.tiles = TILES_CACHE[last.worker].tiles

\* C17: no operation ever removes a committed PBFile row: every step keeps
\* every row with its id, file name, identity and ingestion data, and a
\* delete, a bulk delete or a permanent removal of an archived file changes
\* of the rows only is_current (to false) and path.
C17_RowsNeverRemoved ==
    [][ /\ Len(rows') >= Len(rows)
        /\ \A i \in DOMAIN rows :
              [rows'[i] EXCEPT !.is_current = rows[i].is_current,
                               !.path = rows[i].path,
                               !.supersedes_id = rows[i].supersedes_id] = rows[i]
        /\ (pc = "idle" /\ pc' = "idle" /\ last'.op \in {"delete", "delete_bulk", "delete_deleted"})
           => /\ Len(rows') = Len(rows)
              /\ \A i \in DOMAIN rows :
                    /\ rows'[i].is_current => rows[i].is_current
                    /\ rows'[i].supersedes_id = rows[i].supersedes_id ]_vars

\* An archived file of a soft-deleted row was removed for good and the
\* row is still there.
C17_Witness ==
    /\ last.op = "delete_deleted"
    /\ last.id \in DOMAIN rows
    /\ ~rows[last.id].is_current
    /\ rows[last.id].path \notin DOMAIN disk

\* C18: after any sequence of completed interactive ingests, replaces,
\* deletes and batch refreshes, every group_key has at most one row with
\* is_current = true.
C18_OneCurrentPerGroup ==
    pc = "idle"
    => \A i, j \in DOMAIN rows :
          (rows[i].is_current /\ rows[j].is_current /\ rows[i].group_key = rows[j].group_key)
          => i = j

\* The ids of the data rows of a section
RowIds(rs) == {rs[k][1] : k \in DOMAIN rs}

\* A file whose rows match their declared headers: the id columns are
\* named project_id and voter_id, every data row has one cell per header
\* column, and no id occurs twice in its section.
WellFormedPb(f) ==
    /\ ~f.gap
    /\ CellLower(CellStrip(f.ph[1])) = "project_id"
    /\ CellLower(CellStrip(f.vh[1])) = "voter_id"
    /\ \A k \in DOMAIN f.prows : Len(f.prows[k]) = Len(f.ph)
    /\ \A k \in DOMAIN f.vrows : Len(f.vrows[k]) = Len(f.vh)
    /\ Cardinality(RowIds(f.prows)) = Len(f.prows)
    /\ Cardinality(RowIds(f.vrows)) = Len(f.vrows)

HeaderKeys(header) == {CellStrip(header[j]) : j \in 2..Len(header)}

\* C19: for a file with N project rows and M voter rows matching their
\* declared headers, parse_pb_lines returns exactly N project entries and
\* M voter entries, each under the id of its row, and every entry has only
\* keys of the section header (the id column under the name project_id).
C19_ParserRoundTrip ==
    (pc = "parsed" /\ WellFormedPb(cur.file))
    => /\ last.out.raised = "none"
       /\ DOMAIN last.out.projects = RowIds(cur.file.prows)
       /\ Cardinality(DOMAIN last.out.projects) = Len(cur.file.prows)
       /\ DOMAIN last.out.votes = RowIds(cur.file.vrows)
       /\ Cardinality(DOMAIN last.out.votes) = Len(cur.file.vrows)
       /\ \A k \in DOMAIN cur.file.prows :
             /\ last.out.projects[cur.file.prows[k][1]].project_id = cur.file.prows[k][1]
             /\ DOMAIN last.out.projects[cur.file.prows[k][1]]
                   \subseteq {"project_id"} \cup HeaderKeys(cur.file.ph)
       /\ \A k \in DOMAIN cur.file.vrows :
             DOMAIN last.out.votes[cur.file.vrows[k][1]] \subseteq HeaderKeys(cur.file.vh)

\* A well-formed file with a META section, two projects with a cost column
\* and two voters with a vote column was parsed.
C19_Witness ==
    /\ pc = "parsed"
    /\ WellFormedPb(cur.file)
    /\ cur.file.hasMeta
    /\ Len(cur.file.prows) = 2 /\ Len(cur.file.ph) = 2
    /\ Len(cur.file.vrows) = 2 /\ Len(cur.file.vh) = 2
    /\ last.out.raised = "none"

\* C20: every VOTES section with two rows of the same voter_id makes
\* parse_pb_lines raise the duplicate-key error, whatever the other
\* columns of the rows and of the header are; no votes map is returned.
C20_DuplicateVoterRaises ==
    (/\ pc = "parsed"
     /\ CellLower(CellStrip(cur.file.ph[1])) = "project_id"
     /\ \E i, j \in DOMAIN cur.file.vrows :
           i # j /\ cur.file.vrows[i][1] = cur.file.vrows[j][1])
    => last.out.raised = "RuntimeError"

\* The line that follows the PROJECTS line of a file
ProjectsHeaderLine(f) == IF f.gap THEN << >> ELSE f.ph

\* the first column of a header line is the id column of its section
\* (compared as the parser compares it: stripped, in lower case)
FirstColumnIs(header, name) ==
    header # << >> /\ CellLower(CellStrip(header[1])) = name

\* C21: parse_pb_lines fails with the format error whenever the line that
\* follows a PROJECTS line has not project_id as its first column or the
\* line that follows a VOTES line has not voter_id as its first column, and
\* it never takes a header row as a data row.
C21_HeaderValidated ==
    pc = "parsed"
    => /\ (~FirstColumnIs(ProjectsHeaderLine(cur.file), "project_id")
           \/ ~FirstColumnIs(cur.file.vh, "voter_id"))
          => last.out.raised = "ValueError"
       /\ last.out.raised = "none"
          => cur.file.ph[1] \notin DOMAIN last.out.projects

\* C22: comment extraction is stable under re-serialization: extracting the
\* comments of a field with well-formed #n: markers, writing them back as
\* '#1: c1 #2: c2 ...' and extracting again gives the same ordered list.
C22_CommentsRoundTrip ==
    (pc = "comments" /\ last.op = "comments" /\ last.round = 2)
    => last.comments = last.before

\* Two 4-tuples that differ only in case or surrounding white space
SameButCaseAndSpace(a, b) == \A i \in 1..4 : lower(strip(a[i])) = lower(strip(b[i]))

\* C23: build_group_key is deterministic and bounded: two calls on the
\* same 4-tuple return the same key, 4-tuples that differ only in case or
\* surrounding white space get the same key, and no key is longer than 191
\* characters, also when the normalized key is longer.
C23_GroupKeyBounded ==
    pc = "group_key_done"
    => /\ last.first = last.second
       /\ SameButCaseAndSpace(cur.a, cur.b) => last.first = last.other
       /\ Len(last.first) <= 191
       /\ Len(last.other) <= 191

\* Two different 4-tuples whose normalized key is longer than 191 characters
\* and that differ in case only got one hashed key.
C23_Witness ==
    /\ pc = "group_key_done"
    /\ cur.a # cur.b
    /\ SameButCaseAndSpace(cur.a, cur.b)
    /\ Len(cur.a[1]) + Len(cur.a[2]) + 3 > 191
    /\ last.first = last.other
    /\ Len(last.first) = 191

\* The number a META field gives, -1 when it gives none
BoundOf(val) ==
    IF val = "1.0" THEN 1
    ELSE IF \E n \in 0..5 : IntStr(n) = val THEN CHOOSE n \in 0..5 : IntStr(n) = val
    ELSE 0 - 1

\* The label the normalization rule gives for the bounds lo and hi of a
\* unit (k or pts): a lower bound of exactly 1 counts as absent
RuleLabel(unit, lo, hi) ==
    LET m == IF lo = 1 THEN 0 - 1 ELSE lo IN
    IF m = 0 - 1 /\ hi = 0 - 1 THEN <<"Any k">>
    ELSE IF m # 0 - 1 /\ hi # 0 - 1 /\ m = hi THEN <<unit, "=", IntStr(hi)>>
    ELSE IF m # 0 - 1 /\ hi # 0 - 1 THEN <<IntStr(m), "<=", unit, "<=", IntStr(hi)>>
    ELSE IF m # 0 - 1 THEN <<IntStr(m), "<=", unit>>
    ELSE <<unit, "<=", IntStr(hi)>>

\* C24: the k-bounds labels of the approval, ordinal and cumulative rules
\* follow one normalization: a lower bound of exactly 1 is omitted; min and
\* max both present and equal to n give k=n (pts=n); both present and
\* different give m<=k<=n; only one present gives m<=k or k<=n; neither
\* present gives Any k.  (Approval shows no label under a knapsack rule.)
C24_LabelNormalization ==
    pc = "labels_done"
    => /\ ~last.approval.knapsack
          => last.approval.k_label
                = RuleLabel("k", BoundOf(cur.meta.min_length), BoundOf(cur.meta.max_length))
       /\ last.ordinal
             = RuleLabel("k", BoundOf(cur.meta.min_length), BoundOf(cur.meta.max_length))
       /\ last.cumulative
             = RuleLabel("pts", BoundOf(cur.meta.min_sum_points),
                         BoundOf(cur.meta.max_sum_points))

\* C25: a failure on one file of a batch run does not undo the work done
\* for the files processed before it: when the run's transaction has
\* committed, every file counted in processed has its new row committed.
C25_FailuresIsolated ==
    pc = "refresh_stamp" => Len(rows) - Len(cur.rows0) >= cur.processed

\* C26: the batch refresh is idempotent: a full refresh that follows a full
\* refresh without failures, with no change of the canonical directory
\* between the two, inserts no row, changes no is_current flag and reports
\* no failure, also when several files of the directory are in one group.
C26_FullRefreshIdempotent ==
    [][ (/\ pc = "idle" /\ last.op = "refresh" /\ last.result = "ok"
         /\ last.full /\ last.failed = 0
         /\ clock = last.refreshed_at + 1
         /\ pc' = "refresh_stamp" /\ cur'.full)
        => (rows' = rows /\ cur'.failed = 0 /\ cur'.processed = 0) ]_vars

\* C27: after any sequence of completed ingest, replace, delete and batch
\* refresh operations, every file_name has at most one row with
\* is_current = true.
C27_OneCurrentPerFileName ==
    pc = "idle"
    => \A i, j \in DOMAIN rows :
          (rows[i].is_current /\ rows[j].is_current /\ rows[i].file_name = rows[j].file_name)
          => i = j

\* C28: once a row is committed with is_current = false (superseded or
\* soft-deleted), no later operation commits it back to is_current = true;
\* a batch refresh never makes an admin-deleted version current again.
C28_NeverCurrentAgain ==
    [][ \A i \in DOMAIN rows : ~rows[i].is_current => ~rows'[i].is_current ]_vars

\* C29: after any sequence of completed operations in which no filesystem
\* or database step fails, every row with is_current = true has a path
\* that names an existing file of the canonical directory (no file of the
\* archive, no missing file).
C29_CurrentPathInCanonicalDir ==
    pc = "idle"
    => \A i \in DOMAIN rows :
          rows[i].is_current => (rows[i].path.dir = "pb" /\ rows[i].path \in DOMAIN disk)

\* C30: with several workers, each with its own caches, after an
\* interactive ingest, replace or delete has committed in one worker, the
\* next get_tiles_cached of every worker returns the tiles of the rows
\* that are current now, also in a worker that built its cache before the
\* change and also when no batch refresh has ever completed.
C30_EveryWorkerSeesChange ==
    (pc = "idle" /\ last.op = "get_tiles") => last.tiles = BuildTiles(rows)

====
